---- MODULE Spec2Model ----
(***************************************************************************)
(* GeneScoop.py: scan a directory of GenBank files, pick the CDS features  *)
(* that match a gene name or a product/note keyword, extract them and      *)
(* write one FASTA file.                                                   *)
(*                                                                         *)
(* Text is modelled as a sequence of one-character strings, so that        *)
(* str.lower, str.join and the `in` substring test are computed.           *)
(***************************************************************************)
EXTENDS Naturals, Sequences, FiniteSets, TLC

VARIABLES
    input_dir,                  \* file name -> content of that *.gbk file
    threads,                    \* max_workers of the pool
    genes_of_interest,          \* configured gene names
    product_and_note_keywords,  \* configured keywords
    mainPc,                     \* position of the main script
    gbk_files,                  \* sorted(input_dir.glob("*.gbk"))
    future_to_file,             \* files submitted so far, in submission order
    work_queue,                 \* the executor's FIFO of tasks not yet started
    pc,                         \* per file: position of its extract_sequences call
    i,                          \* per file: index of the feature being walked
    processed_coords,           \* per file: the call's local set of coordinates
    gene_hits,                  \* per file: the call's local list of hits
    idx,                        \* per file: enumerate index of the second loop
    extracted,                  \* per file: the call's local list of records
    result,                     \* per file: what the future holds once finished
    completed,                  \* futures as_completed still has to yield
    collected,                  \* files whose future the collector has consumed
    all_sequences,              \* the aggregate
    write_log,                  \* the line printed by the save step
    exit_status                 \* the interpreter's exit status

vars == <<input_dir, threads, genes_of_interest, product_and_note_keywords,
          mainPc, gbk_files, future_to_file, work_queue, pc, i,
          processed_coords, gene_hits, idx, extracted, result, completed,
          collected, all_sequences, write_log, exit_status>>

inputs == <<input_dir, threads, genes_of_interest, product_and_note_keywords>>

locals == <<i, processed_coords, gene_hits, idx, extracted>>

\* ------------------------------------------------------------------ bounds
MaxFiles == 2
MaxThreads == 2
MaxFeatures == 3
MaxClassified == 2

\* --------------------------------------------------------------- constants
THREADS == 1

\* -------------------------------------------------------------------- text
LowerChar(c) ==
    CASE c = "A" -> "a"
      [] c = "B" -> "b"
      [] c = "X" -> "x"
      [] c = "Y" -> "y"
      [] OTHER -> c

\* str.lower()
Lower(s) == [k \in 1..Len(s) |-> LowerChar(s[k])]

RECURSIVE Join(_, _)
\* sep.join(list)
Join(sep, list) ==
    IF list = <<>> THEN <<>>
    ELSE IF Len(list) = 1 THEN list[1]
    ELSE list[1] \o sep \o Join(sep, Tail(list))

\* needle in hay
In(needle, hay) ==
    \E k \in 0..Len(hay) :
        /\ k + Len(needle) <= Len(hay)
        /\ SubSeq(hay, k + 1, k + Len(needle)) = needle

\* any(t in text for t in tokens)
AnyIn(tokens, text) == \E k \in 1..Len(tokens) : In(tokens[k], text)

\* dict.get(key, [])
Get(qualifiers, key) ==
    IF key \in DOMAIN qualifiers THEN qualifiers[key] ELSE <<>>

\* -------------------------------------------------- module-level lowercase
genes_of_interest_lower ==
    [k \in 1..Len(genes_of_interest) |-> Lower(genes_of_interest[k])]

product_and_note_keywords_lower ==
    [k \in 1..Len(product_and_note_keywords) |->
        Lower(product_and_note_keywords[k])]

\* ------------------------------------------------------------ input values
\* A feature location: None when the parser could not read it, else start, end
\* and whether a part of it refers to another record (join(J00194.1:1..3,...)).
NoLocation == [none |-> TRUE, start |-> 0, end |-> 0, ref |-> FALSE]

Loc(s, e, r) == [none |-> FALSE, start |-> s, end |-> e, ref |-> r]

CoordA == Loc(0, 3, FALSE)
CoordB == Loc(0, 6, FALSE)
CoordC == Loc(3, 6, FALSE)

Feat(t, l, q) == [type |-> t, location |-> l, qualifiers |-> q]

Empty == <<>>
qGene == [gene |-> << <<"A", "b">> >>]
qGeneSplit == [gene |-> << <<"a">>, <<"B">> >>, product |-> << <<"x", "y">> >>]
qProduct == [product |-> << <<"X", "y">> >>]
qProductNote == [product |-> << <<"x">> >>, note |-> << <<"Y">> >>]
qNoteProduct == [product |-> << <<"y">> >>, note |-> << <<"x">> >>]
qBoth == [gene |-> << <<"a", "b">> >>, product |-> << <<"x", "y">> >>]
qSwapped == [gene |-> << <<"x", "y">> >>, product |-> << <<"a", "b">> >>]
qNone == [note |-> << <<"a", "b">> >>]

RichQualifiers ==
    {qGene, qGeneSplit, qProduct, qProductNote, qNoteProduct, qBoth, qSwapped,
     qNone, Empty}

\* Criteria as configured (lines 14-25), before the module lowercases them.
\* The third one has an empty gene name (genes_of_interest = ['']).
CriteriaSet ==
    { [genes |-> << <<"a", "B">> >>,
       keywords |-> << <<"x", "y">>, <<"X", " ", "y">> >>],
      [genes |-> << <<"b">> >>,
       keywords |-> << <<"y", " ", "x">> >>],
      [genes |-> << <<>> >>,
       keywords |-> << <<"x", "y">> >>] }

DefaultCriteria ==
    [genes |-> << <<"a", "B">> >>,
     keywords |-> << <<"x", "y">>, <<"X", " ", "y">> >>]

\* Features of the extraction runs: three coordinate ranges, each category,
\* a location that refers elsewhere, a non-CDS feature, a missing location.
FeatureSet ==
    {Feat("CDS", CoordA, q) : q \in {qBoth, qProduct, qNone}}
    \cup {Feat("CDS", CoordB, q) : q \in {qGene, qProductNote}}
    \cup {Feat("CDS", CoordC, qGeneSplit),
          Feat("CDS", Loc(0, 3, TRUE), qGene),
          Feat("CDS", Loc(0, 6, TRUE), qProduct),
          Feat("gene", CoordA, qBoth),
          Feat("CDS", NoLocation, qGene)}

\* Features of the classification runs: every qualifier shape at one range,
\* and a second range.
ClassifiedSet ==
    {Feat("CDS", CoordA, q) : q \in RichQualifiers}
    \cup {Feat("CDS", CoordB, qProductNote),
          Feat("CDS", Loc(0, 6, TRUE), qProduct),
          Feat("CDS", NoLocation, qGene)}

SeqsUpTo(S, n) == UNION {[1..k -> S] : k \in 0..n}

Genome == <<"a", "c", "g", "t", "a", "c">>

GbFile(n, ident, feats) ==
    [nrecords |-> n, id |-> ident, description |-> "definition",
     taxonomy |-> IF ident = "X" THEN <<"Archaea", "Euryarchaeota">> ELSE <<>>,
     seq |-> Genome, features |-> feats]

\* Files of the batch runs.
FileOk ==
    GbFile(1, "X", <<Feat("CDS", CoordA, qGene), Feat("CDS", CoordB, qNone),
                     Feat("CDS", CoordB, qProduct)>>)
FileDup ==
    GbFile(1, "Y", <<Feat("CDS", CoordA, qProduct), Feat("CDS", CoordA, qBoth),
                     Feat("CDS", Loc(0, 6, TRUE), qGene)>>)
FileEmpty == GbFile(0, "X", <<>>)
FileNoLocation ==
    GbFile(1, "X", <<Feat("CDS", CoordB, qBoth), Feat("CDS", NoLocation, qNone)>>)

FileSet == {FileOk, FileDup, FileEmpty, FileNoLocation}

\* ------------------------------------------------------- extract_sequences
Files == DOMAIN input_dir

\* gb_obj of file f, as SeqIO.read returns it
gb_obj(f) == input_dir[f]

\* SeqIO.read(genbank_file, 'genbank') raises unless the file holds one record
ReadRaises(f) == input_dir[f].nrecords # 1

cds_features(f) == SelectSeq(gb_obj(f).features, LAMBDA x : x.type = "CDS")

\* (feature.location.start, feature.location.end)
coords(feature) == <<feature.location.start, feature.location.end>>

\* feature.location.start on a feature whose location is None
CoordsRaise(feature) == feature.location.none

\* variant: the test of line 55 dropped
SeenNothing(f) == {}

\* variant: one set of coordinates for all the calls
SeenByAnyCall(f) == UNION {processed_coords[g] : g \in Files}

\* the coordinates the call of file f has recorded
SeenCoords(f) == processed_coords[f]

\* variant: the keyword test before the gene test
MatchTypeKeywordFirst(feature, gene_names, keyword_list) ==
    LET qualifiers == feature.qualifiers
        gene_qual == Lower(Join(<<" ">>, Get(qualifiers, "gene")))
        product_note ==
            Lower(Join(<<" ">>,
                       Get(qualifiers, "product") \o Get(qualifiers, "note")))
    IN  IF AnyIn(keyword_list, product_note) THEN "product_or_note"
        ELSE IF AnyIn(gene_names, gene_qual) THEN "gene"
        ELSE "none"

\* the two tests of the first loop: "gene", "product_or_note" or "none"
MatchType(feature, gene_names, keyword_list) ==
    LET qualifiers == feature.qualifiers
        gene_qual == Lower(Join(<<" ">>, Get(qualifiers, "gene")))
        product_note ==
            Lower(Join(<<" ">>,
                       Get(qualifiers, "product") \o Get(qualifiers, "note")))
    IN  IF AnyIn(gene_names, gene_qual) THEN "gene"
        ELSE IF AnyIn(keyword_list, product_note) THEN "product_or_note"
        ELSE "none"

\* variant: line 69 missing
RecordCoordsGeneOnly(seen, feature, match_type) ==
    IF match_type = "gene" THEN seen \cup {coords(feature)} ELSE seen

\* lines 64 and 69: processed_coords.add(coords) after a hit of either kind
RecordCoords(seen, feature, match_type) == seen \cup {coords(feature)}

\* variant: the try around the loop instead of inside it
AfterFailureAbort(n, total) == total

\* lines 86-87: the index the second loop goes on with after a failure
AfterFailure(n, total) == n + 1

\* hit.extract(gb_obj) raises when the location refers to another record
ExtractRaises(feature) == feature.location.ref

\* hit.extract(gb_obj).seq: the slice [start:end] of the record's sequence
ExtractSeq(gb, feature) ==
    SubSeq(gb.seq, feature.location.start + 1, feature.location.end)

Digits == <<"0", "1", "2", "3", "4", "5", "6", "7", "8", "9">>

\* str(n) of a one-digit number
Str(n) == Digits[n + 1]

\* '; '.join(annotations.get('taxonomy', [])) or 'unknown taxonomy'
TaxonomyText(gb) ==
    LET joined == Join(<<"; ">>, [k \in 1..Len(gb.taxonomy) |-> <<gb.taxonomy[k]>>])
    IN  IF joined = <<>> THEN <<"unknown taxonomy">> ELSE joined

\* variant: idx instead of idx+1
MakeRecordZeroBased(gb, feature, match_type, n) ==
    [seq |-> ExtractSeq(gb, feature),
     id |-> <<gb.id, "_", match_type, "_", Str(n)>>,
     description |-> <<match_type, " ", gb.description, ", ">> \o TaxonomyText(gb)]

\* the SeqRecord built for the hit at enumerate index n
MakeRecord(gb, feature, match_type, n) ==
    [seq |-> ExtractSeq(gb, feature),
     id |-> <<gb.id, "_", match_type, "_", Str(n + 1)>>,
     description |-> <<match_type, " ", gb.description, ", ">> \o TaxonomyText(gb)]

\* a finished future reaches the collector's waiter once it is installed
Notify(f) ==
    completed' = IF mainPc = "collect" THEN Append(completed, f) ELSE completed

Running(f) == pc[f] \in {"read", "walk", "extract"}

Done(f) == pc[f] \in {"returned", "raised"}

\* a worker thread takes the oldest queued task
StartTask(f) ==
    /\ work_queue # <<>>
    /\ f = Head(work_queue)
    /\ Cardinality({g \in Files : Running(g)}) < threads
    /\ work_queue' = Tail(work_queue)
    /\ pc' = [pc EXCEPT ![f] = "read"]
    /\ UNCHANGED <<inputs, mainPc, gbk_files, future_to_file, locals, result,
                   completed, collected, all_sequences, write_log, exit_status>>

\* lines 39-51: the file is read
ReadOk(f) ==
    /\ pc[f] = "read"
    /\ ~ReadRaises(f)
    /\ extracted' = [extracted EXCEPT ![f] = <<>>]
    /\ processed_coords' = [processed_coords EXCEPT ![f] = {}]
    /\ gene_hits' = [gene_hits EXCEPT ![f] = <<>>]
    /\ i' = [i EXCEPT ![f] = 1]
    /\ pc' = [pc EXCEPT ![f] = "walk"]
    /\ UNCHANGED <<inputs, mainPc, gbk_files, future_to_file, work_queue, idx,
                   result, completed, collected, all_sequences, write_log,
                   exit_status>>

\* lines 44-46: the read raised, the call returns []
ReadFail(f) ==
    /\ pc[f] = "read"
    /\ ReadRaises(f)
    /\ extracted' = [extracted EXCEPT ![f] = <<>>]
    /\ processed_coords' = [processed_coords EXCEPT ![f] = {}]
    /\ result' = [result EXCEPT ![f] = <<>>]
    /\ pc' = [pc EXCEPT ![f] = "returned"]
    /\ Notify(f)
    /\ UNCHANGED <<inputs, mainPc, gbk_files, future_to_file, work_queue, i,
                   gene_hits, idx, collected, all_sequences, write_log,
                   exit_status>>

\* line 54 on a feature without location: AttributeError leaves the call
WalkRaise(f) ==
    /\ pc[f] = "walk"
    /\ i[f] <= Len(cds_features(f))
    /\ CoordsRaise(cds_features(f)[i[f]])
    /\ pc' = [pc EXCEPT ![f] = "raised"]
    /\ Notify(f)
    /\ UNCHANGED <<inputs, mainPc, gbk_files, future_to_file, work_queue,
                   locals, result, collected, all_sequences, write_log,
                   exit_status>>

\* lines 55-56: the coordinates were recorded already
WalkSkip(f) ==
    /\ pc[f] = "walk"
    /\ i[f] <= Len(cds_features(f))
    /\ LET feature == cds_features(f)[i[f]]
       IN  /\ ~CoordsRaise(feature)
           /\ coords(feature) \in SeenCoords(f)
    /\ i' = [i EXCEPT ![f] = @ + 1]
    /\ UNCHANGED <<inputs, mainPc, gbk_files, future_to_file, work_queue, pc,
                   processed_coords, gene_hits, idx, extracted, result,
                   completed, collected, all_sequences, write_log, exit_status>>

\* lines 58-69 when one of the two tests succeeds
WalkHit(f) ==
    /\ pc[f] = "walk"
    /\ i[f] <= Len(cds_features(f))
    /\ LET feature == cds_features(f)[i[f]]
           match_type == MatchType(feature, genes_of_interest_lower,
                                   product_and_note_keywords_lower)
       IN  /\ ~CoordsRaise(feature)
           /\ coords(feature) \notin SeenCoords(f)
           /\ match_type # "none"
           /\ gene_hits' = [gene_hits EXCEPT ![f] =
                  Append(@, [feature |-> i[f], match_type |-> match_type])]
           /\ processed_coords' = [processed_coords EXCEPT ![f] =
                  RecordCoords(@, feature, match_type)]
    /\ i' = [i EXCEPT ![f] = @ + 1]
    /\ UNCHANGED <<inputs, mainPc, gbk_files, future_to_file, work_queue, pc,
                   idx, extracted, result, completed, collected, all_sequences,
                   write_log, exit_status>>

\* lines 58-69 when neither test succeeds
WalkNoMatch(f) ==
    /\ pc[f] = "walk"
    /\ i[f] <= Len(cds_features(f))
    /\ LET feature == cds_features(f)[i[f]]
       IN  /\ ~CoordsRaise(feature)
           /\ coords(feature) \notin SeenCoords(f)
           /\ MatchType(feature, genes_of_interest_lower,
                        product_and_note_keywords_lower) = "none"
    /\ i' = [i EXCEPT ![f] = @ + 1]
    /\ UNCHANGED <<inputs, mainPc, gbk_files, future_to_file, work_queue, pc,
                   processed_coords, gene_hits, idx, extracted, result,
                   completed, collected, all_sequences, write_log, exit_status>>

\* lines 71-73: the first loop is over, the second starts
WalkEnd(f) ==
    /\ pc[f] = "walk"
    /\ i[f] > Len(cds_features(f))
    /\ idx' = [idx EXCEPT ![f] = 0]
    /\ pc' = [pc EXCEPT ![f] = "extract"]
    /\ UNCHANGED <<inputs, mainPc, gbk_files, future_to_file, work_queue, i,
                   processed_coords, gene_hits, extracted, result, completed,
                   collected, all_sequences, write_log, exit_status>>

\* lines 74-85: the record of one hit is built and appended
ExtractOk(f) ==
    /\ pc[f] = "extract"
    /\ idx[f] < Len(gene_hits[f])
    /\ LET hit == gene_hits[f][idx[f] + 1]
           feature == cds_features(f)[hit.feature]
       IN  /\ ~ExtractRaises(feature)
           /\ extracted' = [extracted EXCEPT ![f] =
                  Append(@, MakeRecord(gb_obj(f), feature, hit.match_type, idx[f]))]
    /\ idx' = [idx EXCEPT ![f] = @ + 1]
    /\ UNCHANGED <<inputs, mainPc, gbk_files, future_to_file, work_queue, pc, i,
                   processed_coords, gene_hits, result, completed, collected,
                   all_sequences, write_log, exit_status>>

\* lines 86-87: the extraction of one hit raised, the loop goes on
ExtractFail(f) ==
    /\ pc[f] = "extract"
    /\ idx[f] < Len(gene_hits[f])
    /\ ExtractRaises(cds_features(f)[gene_hits[f][idx[f] + 1].feature])
    /\ idx' = [idx EXCEPT ![f] = AfterFailure(@, Len(gene_hits[f]))]
    /\ UNCHANGED <<inputs, mainPc, gbk_files, future_to_file, work_queue, pc, i,
                   processed_coords, gene_hits, extracted, result, completed,
                   collected, all_sequences, write_log, exit_status>>

\* line 89
Return(f) ==
    /\ pc[f] = "extract"
    /\ idx[f] = Len(gene_hits[f])
    /\ result' = [result EXCEPT ![f] = extracted[f]]
    /\ pc' = [pc EXCEPT ![f] = "returned"]
    /\ Notify(f)
    /\ UNCHANGED <<inputs, mainPc, gbk_files, future_to_file, work_queue,
                   locals, collected, all_sequences, write_log, exit_status>>

\* ------------------------------------------------------------- main script
RECURSIVE Sorted(_)
\* sorted(...) of a set of file names
Sorted(S) ==
    IF S = {} THEN <<>>
    ELSE LET least == CHOOSE x \in S : \A y \in S : x <= y
         IN  <<least>> \o Sorted(S \ {least})

\* the orders in which iterating a set of futures can give them
Orders(S) ==
    {s \in [1..Cardinality(S) -> S] : \A a, b \in DOMAIN s : s[a] = s[b] => a = b}

\* lines 119-122 on one record
Validated(r) ==
    [r EXCEPT
       !.id = IF r.id = <<>> \/ r.id = <<"<unknown id>">>
              THEN <<"unknown_id">> ELSE r.id,
       !.description =
              IF r.description = <<>> \/ r.description = <<"<unknown description>">>
              THEN <<"unknown description">> ELSE r.description]

\* line 98
Discover ==
    /\ mainPc = "start"
    /\ gbk_files' = Sorted(Files)
    /\ mainPc' = "submit"
    /\ UNCHANGED <<inputs, future_to_file, work_queue, pc, locals, result,
                   completed, collected, all_sequences, write_log, exit_status>>

\* lines 102-105: one executor.submit of the dict comprehension
Submit ==
    /\ mainPc = "submit"
    /\ Len(future_to_file) < Len(gbk_files)
    /\ LET file == gbk_files[Len(future_to_file) + 1]
       IN  /\ future_to_file' = Append(future_to_file, file)
           /\ work_queue' = Append(work_queue, file)
           /\ pc' = [pc EXCEPT ![file] = "PENDING"]
    /\ UNCHANGED <<inputs, mainPc, gbk_files, locals, result, completed,
                   collected, all_sequences, write_log, exit_status>>

\* line 107: as_completed takes the futures that are finished already, in the
\* order a set of them iterates, and waits for the others as they finish
AsCompleted ==
    /\ mainPc = "submit"
    /\ Len(future_to_file) = Len(gbk_files)
    /\ \E order \in Orders({f \in Files : Done(f)}) : completed' = order
    /\ mainPc' = "collect"
    /\ UNCHANGED <<inputs, gbk_files, future_to_file, work_queue, pc, locals,
                   result, collected, all_sequences, write_log, exit_status>>

\* lines 108-113: the aggregate after future.result() returned or raised
Extended(future) ==
    IF pc[future] = "returned"
    THEN all_sequences \o result[future]
    ELSE all_sequences

\* variant: no except clause, the exception ends the script
AfterCollectUncaught(future) ==
    IF pc[future] = "raised" THEN "crashed" ELSE "collect"

\* lines 108-113: where the main script is after one turn of the loop
AfterCollect(future) == "collect"

\* lines 108-113: one turn of the collecting loop
Collect ==
    /\ mainPc = "collect"
    /\ completed # <<>>
    /\ LET future == Head(completed)
       IN  /\ all_sequences' = Extended(future)
           /\ collected' = collected \cup {future}
           /\ mainPc' = AfterCollect(future)
    /\ completed' = Tail(completed)
    /\ UNCHANGED <<inputs, gbk_files, future_to_file, work_queue, pc,
                   locals, result, write_log, exit_status>>

\* lines 107-115: every future was yielded, the pool is left
PoolExit ==
    /\ mainPc = "collect"
    /\ Cardinality(collected) = Len(future_to_file)
    /\ mainPc' = "validate"
    /\ UNCHANGED <<inputs, gbk_files, future_to_file, work_queue, pc, locals,
                   result, completed, collected, all_sequences, write_log,
                   exit_status>>

\* lines 118-122
Validate ==
    /\ mainPc = "validate"
    /\ all_sequences' = [k \in 1..Len(all_sequences) |-> Validated(all_sequences[k])]
    /\ mainPc' = "save"
    /\ UNCHANGED <<inputs, gbk_files, future_to_file, work_queue, pc, locals,
                   result, completed, collected, write_log, exit_status>>

\* the status the interpreter ends with when the script runs off its last line
ExitAfterSave(log) == 0

\* lines 125-127: SeqIO.write succeeded
SaveOk ==
    /\ mainPc = "save"
    /\ write_log' = "saved"
    /\ exit_status' = ExitAfterSave("saved")
    /\ mainPc' = "done"
    /\ UNCHANGED <<inputs, gbk_files, future_to_file, work_queue, pc, locals,
                   result, completed, collected, all_sequences>>

\* lines 128-129: SeqIO.write raised (the output path cannot be written)
SaveFail ==
    /\ mainPc = "save"
    /\ write_log' = "error"
    /\ exit_status' = ExitAfterSave("error")
    /\ mainPc' = "done"
    /\ UNCHANGED <<inputs, gbk_files, future_to_file, work_queue, pc, locals,
                   result, completed, collected, all_sequences>>

\* ---------------------------------------------------------- specifications
Start(dir, t, criteria) ==
    /\ input_dir = dir
    /\ threads = t
    /\ genes_of_interest = criteria.genes
    /\ product_and_note_keywords = criteria.keywords
    /\ mainPc = "start"
    /\ gbk_files = <<>>
    /\ future_to_file = <<>>
    /\ work_queue = <<>>
    /\ pc = [f \in DOMAIN dir |-> "none"]
    /\ i = [f \in DOMAIN dir |-> 0]
    /\ processed_coords = [f \in DOMAIN dir |-> {}]
    /\ gene_hits = [f \in DOMAIN dir |-> <<>>]
    /\ idx = [f \in DOMAIN dir |-> 0]
    /\ extracted = [f \in DOMAIN dir |-> <<>>]
    /\ result = [f \in DOMAIN dir |-> <<>>]
    /\ completed = <<>>
    /\ collected = {}
    /\ all_sequences = <<>>
    /\ write_log = "none"
    /\ exit_status = 0

\* a directory of up to MaxFiles files, any worker count up to MaxThreads
Init ==
    \E names \in SUBSET (1..MaxFiles) :
        \E dir \in [names -> FileSet] :
            \E t \in 1..MaxThreads : Start(dir, t, DefaultCriteria)

\* one file, the configured worker count, any features and criteria
InitExtract ==
    \E n \in 0..2 :
        \E feats \in SeqsUpTo(FeatureSet, MaxFeatures) :
            /\ n # 1 => feats = <<>>
            /\ Start([f \in {1} |-> GbFile(n, "X", feats)], THREADS, DefaultCriteria)

\* one file, the configured worker count, any qualifiers and criteria
InitClassify ==
    \E n \in 0..1 :
        \E feats \in SeqsUpTo(ClassifiedSet, MaxClassified) :
            \E criteria \in CriteriaSet :
                /\ n # 1 => feats = <<>>
                /\ Start([f \in {1} |-> GbFile(n, "Y", feats)], THREADS, criteria)

Next ==
    \/ Discover
    \/ Submit
    \/ AsCompleted
    \/ Collect
    \/ PoolExit
    \/ Validate
    \/ SaveOk
    \/ SaveFail
    \/ \E f \in Files : StartTask(f)
    \/ \E f \in Files : ReadOk(f)
    \/ \E f \in Files : ReadFail(f)
    \/ \E f \in Files : WalkRaise(f)
    \/ \E f \in Files : WalkSkip(f)
    \/ \E f \in Files : WalkHit(f)
    \/ \E f \in Files : WalkNoMatch(f)
    \/ \E f \in Files : WalkEnd(f)
    \/ \E f \in Files : ExtractOk(f)
    \/ \E f \in Files : ExtractFail(f)
    \/ \E f \in Files : Return(f)

Spec == Init /\ [][Next]_vars

SpecExtract == InitExtract /\ [][Next]_vars

SpecClassify == InitClassify /\ [][Next]_vars

\* threads of the pool and the main thread keep running
FairSpec == Init /\ [][Next]_vars /\ WF_vars(Next)

\* ------------------------------------------------- reference definitions
Range(s) == {s[k] : k \in 1..Len(s)}

\* n occurs in h: h = before \o n \o after
RefSub(n, h) ==
    \E a, b \in 0..Len(h) : a <= b /\ SubSeq(h, a + 1, b) = n

\* the values of the named qualifiers, each lowercased, joined with spaces
RefText(feature, keys) ==
    LET q == feature.qualifiers
        RECURSIVE Values(_)
        Values(ks) ==
            IF ks = <<>> THEN <<>>
            ELSE (IF Head(ks) \in DOMAIN q THEN q[Head(ks)] ELSE <<>>)
                 \o Values(Tail(ks))
        vals == Values(keys)
    IN  Join(<<" ">>, [k \in 1..Len(vals) |-> Lower(vals[k])])

RefClassify(feature) ==
    IF \E k \in 1..Len(genes_of_interest) :
           RefSub(Lower(genes_of_interest[k]), RefText(feature, <<"gene">>))
    THEN "GeneName"
    ELSE IF \E k \in 1..Len(product_and_note_keywords) :
                RefSub(Lower(product_and_note_keywords[k]),
                       RefText(feature, <<"product", "note">>))
         THEN "ProductOrNote"
         ELSE "NoMatch"

Token(category) ==
    CASE category = "GeneName" -> "gene"
      [] category = "ProductOrNote" -> "product_or_note"
      [] OTHER -> "none"

\* the CDS features of file f the first loop has dealt with
Walked(f) == {k \in 1..Len(cds_features(f)) : pc[f] # "none" /\ k < i[f]}

\* the match type feature k of file f was recorded with, "none" if it was not
HitType(f, k) ==
    IF \E h \in 1..Len(gene_hits[f]) : gene_hits[f][h].feature = k
    THEN gene_hits[f][CHOOSE h \in 1..Len(gene_hits[f]) :
                          gene_hits[f][h].feature = k].match_type
    ELSE "none"

\* feature k of file f has a record in the call's output
InOutput(f, k) ==
    \E h \in 1..Len(gene_hits[f]) :
        /\ gene_hits[f][h].feature = k
        /\ \E r \in 1..Len(extracted[f]) : extracted[f][r].id[5] = Str(h)

SameRange(f, a, b) ==
    coords(cds_features(f)[a]) = coords(cds_features(f)[b])

\* the hits of a feature list: first feature of each range that matches
RECURSIVE RefHits(_, _, _)
RefHits(cds, k, seen) ==
    IF k > Len(cds) THEN <<>>
    ELSE IF coords(cds[k]) \in seen \/ RefClassify(cds[k]) = "NoMatch"
         THEN RefHits(cds, k + 1, seen)
         ELSE <<[feature |-> k, category |-> RefClassify(cds[k])]>>
              \o RefHits(cds, k + 1, seen \cup {coords(cds[k])})

\* what one file contributes, as a function of the file alone
RefRecords(file) ==
    LET cds == SelectSeq(file.features, LAMBDA x : x.type = "CDS")
        hits == RefHits(cds, 1, {})
        kept == SelectSeq([h \in 1..Len(hits) |-> h],
                          LAMBDA h : ~cds[hits[h].feature].location.ref)
    IN  IF file.nrecords # 1 \/ \E k \in 1..Len(cds) : cds[k].location.none
        THEN <<>>
        ELSE [k \in 1..Len(kept) |->
                 LET loc == cds[hits[kept[k]].feature].location
                     token == Token(hits[kept[k]].category)
                 IN  [seq |-> SubSeq(file.seq, loc.start + 1, loc.end),
                      id |-> <<file.id, "_", token, "_", Str(kept[k])>>,
                      description |->
                          <<token, " ", file.description, ", ">>
                          \o (IF file.taxonomy = <<>> THEN <<"unknown taxonomy">>
                              ELSE Join(<<"; ">>,
                                        [t \in 1..Len(file.taxonomy) |->
                                            <<file.taxonomy[t]>>]))]]

RECURSIVE SumLen(_)
SumLen(S) ==
    IF S = {} THEN 0
    ELSE LET f == CHOOSE x \in S : TRUE
         IN  Len(RefRecords(input_dir[f])) + SumLen(S \ {f})

\* the hits of file f whose extraction does not raise, in recorded order
Kept(f) ==
    SelectSeq([h \in 1..Len(gene_hits[f]) |-> h],
              LAMBDA h : ~cds_features(f)[gene_hits[f][h].feature].location.ref)

\* feature k of file f comes after a recorded hit with the same range
Shadowed(f, k) ==
    \E j \in 1..Len(cds_features(f)) :
        j < k /\ HitType(f, j) # "none" /\ SameRange(f, j, k)

\* the aggregate when the files' results are appended in the given order
RECURSIVE Flat(_)
Flat(order) ==
    IF order = <<>> THEN <<>>
    ELSE (IF pc[Head(order)] = "returned" THEN result[Head(order)] ELSE <<>>)
         \o Flat(Tail(order))

\* file with every location made local, so that no extraction raises
Cleared(file) ==
    [file EXCEPT !.features =
        [k \in 1..Len(file.features) |->
            [file.features[k] EXCEPT !.location.ref = FALSE]]]

\* ------------------------------------------------------------------ claims

\* C1 (as amended): every CDS feature the first loop classifies is recorded
\* with the token of the reference classification: gene if a gene name occurs
\* in the lowercased, space-joined gene values, else product_or_note if a
\* keyword occurs in the lowercased, space-joined product then note values,
\* else not at all.  This covers every criteria set, the one with an empty
\* gene name included.  A feature that satisfies both criteria is recorded as
\* gene; one without gene qualifier that matches a keyword is recorded as
\* product_or_note unless a configured gene name is empty.
C1_ClassificationIsReference ==
    \A f \in Files : \A k \in Walked(f) :
        LET feature == cds_features(f)[k]
            byGene ==
                \E n \in 1..Len(genes_of_interest) :
                    RefSub(Lower(genes_of_interest[n]), RefText(feature, <<"gene">>))
            byKeyword ==
                \E n \in 1..Len(product_and_note_keywords) :
                    RefSub(Lower(product_and_note_keywords[n]),
                           RefText(feature, <<"product", "note">>))
        IN  ~Shadowed(f, k) =>
                /\ HitType(f, k) = Token(RefClassify(feature))
                /\ (byGene /\ byKeyword) => HitType(f, k) = "gene"
                /\ (/\ "gene" \notin DOMAIN feature.qualifiers
                    /\ byKeyword
                    /\ <<>> \notin Range(genes_of_interest))
                   => HitType(f, k) = "product_or_note"

\* C1, witness: one call recorded a feature that satisfies both criteria as
\* gene, and a feature without gene qualifier as product_or_note.
C1_Witness ==
    \E f \in Files :
        /\ pc[f] = "returned"
        /\ \E a, b \in Walked(f) :
            /\ HitType(f, a) = "gene"
            /\ RefSub(<<"x", "y">>, RefText(cds_features(f)[a], <<"product", "note">>))
            /\ <<"x", "y">> \in Range(product_and_note_keywords_lower)
            /\ HitType(f, b) = "product_or_note"
            /\ "gene" \notin DOMAIN cds_features(f)[b].qualifiers

\* C1 as stated, its last sentence: a feature without a gene qualifier that
\* matches a keyword is always recorded as product_or_note.
C1_KeywordOnlyIsProductOrNote ==
    \A f \in Files : \A k \in Walked(f) :
        LET feature == cds_features(f)[k]
        IN  (/\ ~Shadowed(f, k)
             /\ "gene" \notin DOMAIN feature.qualifiers
             /\ \E n \in 1..Len(product_and_note_keywords) :
                    RefSub(Lower(product_and_note_keywords[n]),
                           RefText(feature, <<"product", "note">>)))
            => HitType(f, k) = "product_or_note"

\* C2: of two CDS features of one file with the same (start, end) at most one
\* is recorded as a hit and at most one is extracted; no range occurs twice
\* among the hits of one call.
C2_OneHitPerRange ==
    \A f \in Files :
        /\ \A a, b \in 1..Len(gene_hits[f]) :
               SameRange(f, gene_hits[f][a].feature, gene_hits[f][b].feature)
                   => a = b
        /\ \A a, b \in 1..Len(cds_features(f)) :
               (a # b /\ SameRange(f, a, b)) =>
                   /\ ~(HitType(f, a) # "none" /\ HitType(f, b) # "none")
                   /\ ~(InOutput(f, a) /\ InOutput(f, b))

\* C2, witness: two features with the same range both satisfy the criteria,
\* the call is over and only the first is a hit.
C2_Witness ==
    \E f \in Files :
        /\ pc[f] = "returned"
        /\ \E a, b \in 1..Len(cds_features(f)) :
            /\ a < b
            /\ SameRange(f, a, b)
            /\ RefClassify(cds_features(f)[a]) # "NoMatch"
            /\ RefClassify(cds_features(f)[b]) # "NoMatch"
            /\ InOutput(f, a)
            /\ HitType(f, b) = "none"

\* C3 as stated: of two CDS features with the same range and different
\* qualifiers, the later one never appears in the output, whatever the
\* qualifiers of the two are.
C3_LaterNeverExtracted ==
    \A f \in Files : \A a, b \in 1..Len(cds_features(f)) :
        (/\ a < b
         /\ SameRange(f, a, b)
         /\ cds_features(f)[a].qualifiers # cds_features(f)[b].qualifiers)
        => ~InOutput(f, b)

\* C3 (as amended): of two CDS features with the same range, when the earlier
\* one satisfies the criteria the later one is neither recorded nor extracted.
C3_LaterNeverExtractedAfterMatch ==
    \A f \in Files : \A a, b \in 1..Len(cds_features(f)) :
        (/\ a < b
         /\ SameRange(f, a, b)
         /\ RefClassify(cds_features(f)[a]) # "NoMatch")
        => (HitType(f, b) = "none" /\ ~InOutput(f, b))

\* C3, witness: the earlier of two features with one range and different
\* qualifiers was extracted under one category, the later one would have
\* matched under the other and the call is over.
C3_Witness ==
    \E f \in Files :
        /\ pc[f] = "returned"
        /\ \E a, b \in 1..Len(cds_features(f)) :
            /\ a < b
            /\ SameRange(f, a, b)
            /\ cds_features(f)[a].qualifiers # cds_features(f)[b].qualifiers
            /\ RefClassify(cds_features(f)[a]) = "ProductOrNote"
            /\ RefClassify(cds_features(f)[b]) = "GeneName"
            /\ InOutput(f, a)
            /\ Len(result[f]) = 1

\* C4 as stated: the identifiers of a file's output carry the indices 1..N,
\* N the number of recorded hits, without gap.
C4_IndicesRunOneToN ==
    \A f \in Files :
        (pc[f] = "returned" /\ ~ReadRaises(f)) =>
            [k \in 1..Len(result[f]) |-> result[f][k].id[5]]
                = [k \in 1..Len(gene_hits[f]) |-> Str(k)]

\* C4 (as amended): the record of the k-th recorded hit is identified
\* id_category_k; the output lists, in recorded order, the identifiers of the
\* hits whose extraction did not raise, so they are distinct and run 1..N
\* without gap exactly when no extraction raised.
C4_IndicesFollowHits ==
    \A f \in Files :
        (pc[f] = "returned" /\ ~ReadRaises(f)) =>
            /\ [k \in 1..Len(result[f]) |-> result[f][k].id]
                   = [k \in 1..Len(Kept(f)) |->
                         <<gb_obj(f).id, "_", gene_hits[f][Kept(f)[k]].match_type,
                           "_", Str(Kept(f)[k])>>]
            /\ \A a, b \in 1..Len(result[f]) :
                   result[f][a].id = result[f][b].id => a = b

\* C4, witness: a call returned records although its first hit raised, so
\* the first identifier of the output does not carry index 1.
C4_Witness ==
    \E f \in Files :
        /\ pc[f] = "returned"
        /\ Len(gene_hits[f]) >= 2
        /\ Len(result[f]) >= 1
        /\ ExtractRaises(cds_features(f)[gene_hits[f][1].feature])
        /\ result[f][1].id[5] = "2"

\* C5 as stated: no call of extract_sequences ends by raising.
C5_NeverRaisesOutward == \A f \in Files : pc[f] # "raised"

\* C6: when the extraction of a hit raises, the output holds, in recorded
\* order, the record of every other hit, with the sequence and description
\* the hit has in the same file when no extraction raises.
C6_OtherHitsUnaffected ==
    \A f \in Files :
        (pc[f] = "returned" /\ ~ReadRaises(f)) =>
            LET clean == RefRecords(Cleared(input_dir[f]))
            IN  /\ Len(result[f]) = Len(Kept(f))
                /\ \A k \in 1..Len(result[f]) :
                       /\ result[f][k].seq = clean[Kept(f)[k]].seq
                       /\ result[f][k].description = clean[Kept(f)[k]].description

\* C6, witness: three hits, the second raised, the first and third are in
\* the output.
C6_Witness ==
    \E f \in Files :
        /\ pc[f] = "returned"
        /\ Len(gene_hits[f]) = 3
        /\ ExtractRaises(cds_features(f)[gene_hits[f][2].feature])
        /\ Len(result[f]) = 2
        /\ result[f][2].id[5] = "3"

\* C7: whichever files fail, the aggregate at the end is the results of the
\* calls that returned, each once, the failing ones contributing nothing, and
\* the save step is reached.
C7_BatchSurvivesFailures ==
    /\ [](mainPc = "done" =>
            /\ collected = Files
            /\ \A f \in Files : ReadRaises(f) => (pc[f] = "returned" /\ result[f] = <<>>)
            /\ \E order \in Orders(Files) : all_sequences = Flat(order))
    /\ <>(write_log # "none")

\* C7, witness: the script is done, one call raised, another returned
\* records and they are in the aggregate.
C7_Witness ==
    /\ mainPc = "done"
    /\ \E f, g \in Files :
        /\ pc[f] = "raised"
        /\ pc[g] = "returned"
        /\ result[g] # <<>>
        /\ all_sequences = result[g]

\* C8: the records handed to the writer are, as a set, those the files yield
\* one by one, each file counted once, for every worker count and every
\* interleaving.
C8_AggregateIsOrderIndependent ==
    mainPc \in {"validate", "save", "done"} =>
        /\ Range(all_sequences) = UNION {Range(RefRecords(input_dir[f])) : f \in Files}
        /\ Len(all_sequences) = SumLen(Files)

\* C8, witness: two workers, both files yield records, and the aggregate
\* starts with those of the second file.
C8_Witness ==
    /\ mainPc = "done"
    /\ threads = 2
    /\ Len(gbk_files) >= 2
    /\ result[gbk_files[1]] # <<>>
    /\ result[gbk_files[2]] # <<>>
    /\ all_sequences = result[gbk_files[2]] \o result[gbk_files[1]]

\* C9 as stated: the exit status tells whether the write succeeded.
C9_ExitStatusReflectsWrite ==
    mainPc = "done" => (exit_status = 0 <=> write_log = "saved")

\* C10 as stated: with the configured worker count the aggregate lists the
\* files' records in the sorted order of the files.
C10_DefaultOrderIsSorted ==
    (threads = THREADS /\ mainPc = "done") => all_sequences = Flat(gbk_files)

====
